---- MODULE Spec2Model ----
(***************************************************************************)
(* Quiz backend (Django REST): the attempt-session engine and the quiz     *)
(* catalog of quiz/views.py, quiz/utils.py and quiz/serializers.py over    *)
(* the tables of quiz/models.py.                                           *)
(*                                                                         *)
(* Spec            session requests served one after the other             *)
(* UpdateSpec      the same, with PUT sessions/<pk>/ among the requests    *)
(* ConcurrentSpec  submit_answer and complete requests that overlap: a     *)
(*                 request reads its session row (get_object) and acts on  *)
(*                 that copy in a later step                               *)
(* CatalogSpec     quiz create, quiz update, create-quiz-from-image        *)
(* ShareSpec       the share action of a quiz and the shares endpoint      *)
(* AccessSpec      access by share code (join view, by_share_code action)  *)
(* JoinSpec        the two ways to start a session, with the clock         *)
(* EditSpec        create, update and delete of questions and choices      *)
(*                 around the answers and the completion of a session      *)
(* StatusSpec      is_completed and is_timed_out around the deadline       *)
(*                                                                         *)
(* Optional values are sequences: None is <<>>, a datetime t is <<t>>, a   *)
(* score n/d is <<n, d>> (an exact fraction; float rounding is outside the *)
(* model).  Times are seconds.  DELETE of a quiz or a session is not       *)
(* modelled.                                                               *)
(***************************************************************************)
EXTENDS Integers, Sequences, FiniteSets, TLC

VARIABLES
    quizzes,    \* Quiz table: id -> row
    questions,  \* Question table: set of rows
    choices,    \* Choice table: set of rows
    sessions,   \* QuizSession table: sessions[pk] is the row of session pk
    answers,    \* UserAnswer table: set of rows
    shares,     \* QuizShare table: set of rows
    now,        \* timezone.now()
    req,        \* requests in flight: req[r] is the handler state of slot r
    response    \* the last HTTP response sent

vars == <<quizzes, questions, choices, sessions, answers, shares, now, req, response>>

(* ---- bounds ---------------------------------------------------------- *)
MaxSessions == 1
MaxRequests == 2
MaxTime == 61
TickStep == 61
MaxQuizzes == 2
NumShareCodes == 3
MaxExtractedQuestions == 2
MaxExtractedChoices == 1
MaxShares == 1
MaxJoinSessions == 3
MaxQuestions == 4
MaxChoices == 5

\* Quiz.duration_minutes default
DefaultDuration == 10

Users == {"u1", "u2"}
Participants == {"u2"}
Slots == 1..MaxRequests

None == <<>>
Some(v) == <<v>>

(* ---- quiz/models.py -------------------------------------------------- *)

\* QuizSession.is_completed
is_completed(session) == session.completed_at /= None

\* is_timed_out that counts the deadline itself as timed out
is_timed_out_at_deadline(session, t) ==
    IF session.completed_at = None
    THEN (t - session.started_at) >= quizzes[session.quiz].duration_minutes * 60
    ELSE FALSE

\* QuizSession.is_timed_out
is_timed_out(session, t) ==
    IF session.completed_at = None
    THEN (t - session.started_at) > quizzes[session.quiz].duration_minutes * 60
    ELSE FALSE

\* Choice row by primary key
ChoiceRow(id) == CHOOSE c \in choices : c.id = id

\* UserAnswer.is_correct
is_correct(answer) == ChoiceRow(answer.selected_choice).is_correct

(* ---- quiz/utils.py --------------------------------------------------- *)

\* calculate_quiz_score counting every answer of the session, correct or not
calculate_quiz_score_all_answers(pk, session) ==
    LET total_questions == Cardinality({q \in questions : q.quiz = session.quiz})
        recorded_answers == Cardinality({a \in answers : a.session = pk})
    IN  IF total_questions = 0
        THEN <<0, 1>>
        ELSE <<recorded_answers * 100, total_questions>>

\* calculate_quiz_score: session.quiz.questions.count() and
\* session.answers.filter(selected_choice__is_correct=True).count()
calculate_quiz_score(pk, session) ==
    LET total_questions == Cardinality({q \in questions : q.quiz = session.quiz})
        correct_answers == Cardinality({a \in answers : a.session = pk /\ is_correct(a)})
    IN  IF total_questions = 0
        THEN <<0, 1>>
        ELSE <<correct_answers * 100, total_questions>>

\* complete_quiz_session: the row that session.save() leaves in the table
complete_quiz_session(pk, session) ==
    IF session.completed_at = None
    THEN [session EXCEPT !.completed_at = Some(now),
                         !.score = calculate_quiz_score(pk, session)]
    ELSE sessions[pk]

(* ---- quiz/views.py: QuizSessionViewSet ------------------------------- *)

\* a request slot: not yet used, holding the row get_object returned, or answered
Idle == [pc |-> "idle"]
Done(op, pk, status) == [pc |-> "done", op |-> op, pk |-> pk, status |-> status]

\* IsQuizCreatorOrParticipant.has_object_permission
has_object_permission(user, session) ==
    \/ quizzes[session.quiz].creator = user
    \/ session.user = user

\* QuizSessionViewSet.get_queryset
get_queryset(user) ==
    {pk \in DOMAIN sessions :
        sessions[pk].user = user \/ quizzes[sessions[pk].quiz].creator = user}

\* get_object that looks the row up in the whole table and checks no permission
CanGetObject_unchecked(user, pk) == pk \in DOMAIN sessions

\* get_object: the row is found and the permission check passes
CanGetObject(user, pk) ==
    pk \in get_queryset(user) /\ has_object_permission(user, sessions[pk])

Reply(op, pk, status) == [op |-> op, pk |-> pk, status |-> status]

\* POST sessions/ (QuizSessionSerializer.create)
SessionCreate(user, quiz) ==
    /\ Len(sessions) < MaxSessions
    /\ sessions' = Append(sessions,
            [quiz |-> quiz, user |-> user, started_at |-> now,
             completed_at |-> None, score |-> None])
    /\ response' = Reply("create", Len(sessions) + 1, "ok")
    /\ UNCHANGED <<quizzes, questions, choices, shares, answers, now, req>>

\* PUT sessions/<pk>/ (ModelViewSet.update with QuizSessionSerializer:
\* quiz is the one writable field)
SessionUpdate(user, pk, quiz) ==
    /\ pk \in DOMAIN sessions
    /\ IF CanGetObject(user, pk)
       THEN /\ sessions' = [sessions EXCEPT ![pk].quiz = quiz]
            /\ response' = Reply("update", pk, "ok")
       ELSE /\ response' = Reply("update", pk, "not_found")
            /\ UNCHANGED sessions
    /\ UNCHANGED <<quizzes, questions, choices, shares, answers, now, req>>

\* the requests made in a run are numbered: a new request takes the first unused slot
FreeSlot == IF \E r \in Slots : req[r].pc = "idle"
            THEN CHOOSE r \in Slots : req[r].pc = "idle" /\ \A q \in 1..(r - 1) : req[q].pc /= "idle"
            ELSE 0

\* session = self.get_object(), first line of submit_answer and complete
GetObject(r, op, user, pk) ==
    /\ r = FreeSlot
    /\ pk \in DOMAIN sessions
    /\ IF CanGetObject(user, pk)
       THEN /\ req' = [req EXCEPT ![r] =
                    [pc |-> "loaded", op |-> op, pk |-> pk, session |-> sessions[pk]]]
            /\ UNCHANGED response
       ELSE /\ response' = Reply(op, pk, "not_found")
            /\ UNCHANGED req
    /\ UNCHANGED <<quizzes, questions, choices, shares, sessions, answers, now>>

SubmitAnswerLoad(r, user, pk) == GetObject(r, "submit_answer", user, pk)

CompleteLoad(r, user, pk) == GetObject(r, "complete", user, pk)

\* UserAnswer.objects.update_or_create(session, question, defaults)
\* a fresh primary key (uuid4): the first unused key of the form <<pk, question, n>>
NewAnswerId(pk, question) ==
    LET n == CHOOSE i \in 0..Cardinality(answers) :
                /\ \A a \in answers : a.id /= <<pk, question, i>>
                /\ \A j \in 0..(i - 1) : \E a \in answers : a.id = <<pk, question, j>>
    IN  <<pk, question, n>>

\* update_or_create that inserts a row without looking for an existing one
update_or_create_always_creates(pk, question, choice) ==
    answers \cup {[id |-> NewAnswerId(pk, question), session |-> pk,
                   question |-> question, selected_choice |-> choice]}

update_or_create(pk, question, choice) ==
    IF \E a \in answers : a.session = pk /\ a.question = question
    THEN {IF a.session = pk /\ a.question = question
          THEN [a EXCEPT !.selected_choice = choice]
          ELSE a : a \in answers}
    ELSE answers \cup {[id |-> NewAnswerId(pk, question), session |-> pk,
                        question |-> question, selected_choice |-> choice]}

\* submit_answer that accepts any existing choice, whatever its question
submit_answer_any_choice(pk, session, question_id, choice_id) ==
    IF is_completed(session)
    THEN <<"already_completed", sessions, answers>>
    ELSE IF is_timed_out(session, now)
    THEN <<"timed_out",
           [sessions EXCEPT ![pk] = complete_quiz_session(pk, session)],
           answers>>
    ELSE IF question_id = None \/ choice_id = None
    THEN <<"required", sessions, answers>>
    ELSE IF ~ \E q \in questions : q.id = question_id[1] /\ q.quiz = session.quiz
    THEN <<"invalid_question", sessions, answers>>
    ELSE IF ~ \E c \in choices : c.id = choice_id[1]
    THEN <<"invalid_choice", sessions, answers>>
    ELSE <<"ok", sessions, update_or_create(pk, question_id[1], choice_id[1])>>

\* submit_answer that reports the timeout without completing the session
submit_answer_timeout_only_reported(pk, session, question_id, choice_id) ==
    IF is_completed(session)
    THEN <<"already_completed", sessions, answers>>
    ELSE IF is_timed_out(session, now)
    THEN <<"timed_out", sessions, answers>>
    ELSE IF question_id = None \/ choice_id = None
    THEN <<"required", sessions, answers>>
    ELSE IF ~ \E q \in questions : q.id = question_id[1] /\ q.quiz = session.quiz
    THEN <<"invalid_question", sessions, answers>>
    ELSE IF ~ \E c \in choices : c.id = choice_id[1] /\ c.question = question_id[1]
    THEN <<"invalid_choice", sessions, answers>>
    ELSE <<"ok", sessions, update_or_create(pk, question_id[1], choice_id[1])>>

\* what submit_answer does after get_object, as (status, sessions, answers)
submit_answer(pk, session, question_id, choice_id) ==
    IF is_completed(session)
    THEN <<"already_completed", sessions, answers>>
    ELSE IF is_timed_out(session, now)
    THEN <<"timed_out",
           [sessions EXCEPT ![pk] = complete_quiz_session(pk, session)],
           answers>>
    ELSE IF question_id = None \/ choice_id = None
    THEN <<"required", sessions, answers>>
    ELSE IF ~ \E q \in questions : q.id = question_id[1] /\ q.quiz = session.quiz
    THEN <<"invalid_question", sessions, answers>>
    ELSE IF ~ \E c \in choices : c.id = choice_id[1] /\ c.question = question_id[1]
    THEN <<"invalid_choice", sessions, answers>>
    ELSE <<"ok", sessions, update_or_create(pk, question_id[1], choice_id[1])>>

QuestionInputs == {None} \cup {Some(q.id) : q \in questions}
ChoiceInputs == {None} \cup {Some(c.id) : c \in choices}

\* POST sessions/<pk>/submit-answer/, after get_object
SubmitAnswer(r, question_id, choice_id) ==
    /\ req[r].pc = "loaded"
    /\ req[r].op = "submit_answer"
    /\ LET out == submit_answer(req[r].pk, req[r].session, question_id, choice_id)
       IN  /\ sessions' = out[2]
           /\ answers' = out[3]
           /\ response' = Reply("submit_answer", req[r].pk, out[1])
           /\ req' = [req EXCEPT ![r] = Done("submit_answer", req[r].pk, out[1])]
    /\ UNCHANGED <<quizzes, questions, choices, shares, now>>

\* complete without the is_completed check
complete_unchecked(pk, session) ==
    <<"ok", [sessions EXCEPT ![pk] = complete_quiz_session(pk, session)]>>

\* what complete does after get_object, as (status, sessions)
complete(pk, session) ==
    IF is_completed(session)
    THEN <<"already_completed", sessions>>
    ELSE <<"ok", [sessions EXCEPT ![pk] = complete_quiz_session(pk, session)]>>

\* POST sessions/<pk>/complete/, after get_object
Complete(r) ==
    /\ req[r].pc = "loaded"
    /\ req[r].op = "complete"
    /\ LET out == complete(req[r].pk, req[r].session)
       IN  /\ sessions' = out[2]
           /\ response' = Reply("complete", req[r].pk, out[1])
           /\ req' = [req EXCEPT ![r] = Done("complete", req[r].pk, out[1])]
    /\ UNCHANGED <<quizzes, questions, choices, shares, answers, now>>

\* POST sessions/<pk>/submit-answer/ served without interruption
SubmitAnswerRequest(user, pk, question_id, choice_id) ==
    /\ pk \in DOMAIN sessions
    /\ IF CanGetObject(user, pk)
       THEN LET out == submit_answer(pk, sessions[pk], question_id, choice_id)
            IN  /\ sessions' = out[2]
                /\ answers' = out[3]
                /\ response' = Reply("submit_answer", pk, out[1])
       ELSE /\ response' = Reply("submit_answer", pk, "not_found")
            /\ UNCHANGED <<sessions, answers>>
    /\ UNCHANGED <<quizzes, questions, choices, shares, now, req>>

\* POST sessions/<pk>/complete/ served without interruption
CompleteRequest(user, pk) ==
    /\ pk \in DOMAIN sessions
    /\ IF CanGetObject(user, pk)
       THEN LET out == complete(pk, sessions[pk])
            IN  /\ sessions' = out[2]
                /\ response' = Reply("complete", pk, out[1])
       ELSE /\ response' = Reply("complete", pk, "not_found")
            /\ UNCHANGED sessions
    /\ UNCHANGED <<quizzes, questions, choices, shares, answers, now, req>>

\* the clock advances
Tick ==
    /\ now + TickStep <= MaxTime
    /\ now' = now + TickStep
    /\ UNCHANGED <<quizzes, questions, choices, shares, sessions, answers, req, response>>

(* ---- quiz catalog: Quiz.save, QuizViewSet, create-quiz-from-image ---- *)

\* str(uuid.uuid4())[:8]: some code out of the code space
ShareCodes == 1..NumShareCodes

\* the UNIQUE constraint on Quiz.share_code: another row holds the code
ShareCodeTaken(code, except) ==
    \E id \in DOMAIN quizzes : id /= except /\ quizzes[id].share_code = code

\* Quiz.save: a row without a share code gets a generated one
save(row, generated) ==
    IF row.share_code = None
    THEN [row EXCEPT !.share_code = Some(generated)]
    ELSE row

\* QuizViewSet.get_queryset for an authenticated user
quiz_queryset(user) ==
    {id \in DOMAIN quizzes :
        \/ quizzes[id].is_public
        \/ quizzes[id].creator = user
        \/ \E s \in shares : s.quiz = id /\ s.shared_with = user}

\* IsCreatorOrReadOnly.has_object_permission for an unsafe method
IsCreatorOrReadOnly(user, quiz) == quiz.creator = user

\* request bodies of the quiz API: share_code is a writable, optional field
QuizPayloads ==
    [is_public : BOOLEAN, has_share_code : {FALSE}, share_code : {None}]
    \cup [is_public : BOOLEAN, has_share_code : {TRUE},
          share_code : {None} \cup {Some(c) : c \in ShareCodes}]

\* POST quizzes/ (QuizSerializer, perform_create, Quiz.save)
QuizCreate(user, data, generated) ==
    /\ Len(quizzes) < MaxQuizzes
    /\ LET row == save([creator |-> user, duration_minutes |-> DefaultDuration,
                        is_public |-> data.is_public,
                        allow_anonymous_attempts |-> FALSE,
                        share_code |-> data.share_code], generated)
       IN  IF data.share_code /= None /\ ShareCodeTaken(data.share_code, 0)
           THEN /\ response' = Reply("quiz_create", 0, "invalid")
                /\ UNCHANGED quizzes
           ELSE IF ShareCodeTaken(row.share_code, 0)
           THEN /\ response' = Reply("quiz_create", 0, "integrity_error")
                /\ UNCHANGED quizzes
           ELSE /\ quizzes' = Append(quizzes, row)
                /\ response' = Reply("quiz_create", Len(quizzes) + 1, "ok")
    /\ UNCHANGED <<questions, choices, shares, sessions, answers, now, req>>

\* PUT quizzes/<id>/ (QuizDetailSerializer, ModelSerializer.update, Quiz.save)
QuizUpdate(user, id, data, generated) ==
    /\ id \in DOMAIN quizzes
    /\ IF id \notin quiz_queryset(user)
       THEN /\ response' = Reply("quiz_update", id, "not_found")
            /\ UNCHANGED quizzes
       ELSE IF ~ IsCreatorOrReadOnly(user, quizzes[id])
       THEN /\ response' = Reply("quiz_update", id, "forbidden")
            /\ UNCHANGED quizzes
       ELSE IF data.has_share_code /\ data.share_code /= None
               /\ ShareCodeTaken(data.share_code, id)
       THEN /\ response' = Reply("quiz_update", id, "invalid")
            /\ UNCHANGED quizzes
       ELSE LET row == save([quizzes[id] EXCEPT
                                !.is_public = data.is_public,
                                !.share_code = IF data.has_share_code
                                               THEN data.share_code ELSE @],
                            generated)
            IN  IF ShareCodeTaken(row.share_code, id)
                THEN /\ response' = Reply("quiz_update", id, "integrity_error")
                     /\ UNCHANGED quizzes
                ELSE /\ quizzes' = [quizzes EXCEPT ![id] = row]
                     /\ response' = Reply("quiz_update", id, "ok")
    /\ UNCHANGED <<questions, choices, shares, sessions, answers, now, req>>

\* the largest primary key in use
MaxId(rows) ==
    IF rows = {} THEN 0
    ELSE CHOOSE m \in {r.id : r \in rows} : \A r \in rows : r.id <= m

\* the records of the extraction: a question or choice record may lack its text key
ExtractedChoices == [has_choice_text : BOOLEAN, is_correct : BOOLEAN]
ChoiceLists == UNION {[1..n -> ExtractedChoices] : n \in 0..MaxExtractedChoices}
ExtractedQuestions == [has_question_text : BOOLEAN, choices : ChoiceLists]
ParsedData == UNION {[1..n -> ExtractedQuestions] : n \in 0..MaxExtractedQuestions}

\* create_quiz_from_parsed_data, inner loop from choice i on: the Choice table
\* and whether choice_data['choice_text'] raised KeyError
RECURSIVE CreateChoices(_, _, _, _)
CreateChoices(rows, question, data, i) ==
    IF i > Len(data)
    THEN [choices |-> rows, raised |-> FALSE]
    ELSE IF ~ data[i].has_choice_text
    THEN [choices |-> rows, raised |-> TRUE]
    ELSE CreateChoices(
            rows \cup {[id |-> MaxId(rows) + 1, question |-> question,
                        is_correct |-> data[i].is_correct, order |-> i - 1]},
            question, data, i + 1)

\* create_quiz_from_parsed_data, outer loop from question i on: both tables
\* and whether a KeyError was raised
RECURSIVE CreateQuestions(_, _, _, _, _)
CreateQuestions(qrows, crows, quiz, data, i) ==
    IF i > Len(data)
    THEN [questions |-> qrows, choices |-> crows, raised |-> FALSE]
    ELSE IF ~ data[i].has_question_text
    THEN [questions |-> qrows, choices |-> crows, raised |-> TRUE]
    ELSE LET question == [id |-> MaxId(qrows) + 1, quiz |-> quiz, order |-> i - 1]
             inner == CreateChoices(crows, question.id, data[i].choices, 1)
         IN  IF inner.raised
             THEN [questions |-> qrows \cup {question}, choices |-> inner.choices,
                   raised |-> TRUE]
             ELSE CreateQuestions(qrows \cup {question}, inner.choices, quiz, data, i + 1)

\* create_quiz_from_parsed_data: the tables as the function leaves them, the
\* quiz it returns (None after any exception, which it swallows), and whether a
\* database error marked the transaction for rollback
create_quiz_from_parsed_data(user, is_public, parsed_data, generated) ==
    IF ShareCodeTaken(Some(generated), 0)
    THEN [quiz |-> None, quizzes |-> quizzes, questions |-> questions,
          choices |-> choices, needs_rollback |-> TRUE]
    ELSE LET id == Len(quizzes) + 1
             row == save([creator |-> user, duration_minutes |-> DefaultDuration,
                          is_public |-> is_public, allow_anonymous_attempts |-> FALSE,
                          share_code |-> Some(generated)], generated)
             out == CreateQuestions(questions, choices, id, parsed_data, 1)
         IN  [quiz |-> IF out.raised THEN None ELSE Some(id),
              quizzes |-> Append(quizzes, row), questions |-> out.questions,
              choices |-> out.choices, needs_rollback |-> FALSE]

\* POST create-quiz-from-image/ (CreateQuizFromImageView.create): the
\* transaction.atomic block commits unless an exception leaves it or a database
\* error marked it; no exception leaves create_quiz_from_parsed_data
CreateQuizFromImage(user, is_public, parsed_data, generated) ==
    /\ Len(quizzes) < MaxQuizzes
    /\ LET out == create_quiz_from_parsed_data(user, is_public, parsed_data, generated)
           commit == ~ out.needs_rollback
       IN  /\ quizzes' = IF commit THEN out.quizzes ELSE quizzes
           /\ questions' = IF commit THEN out.questions ELSE questions
           /\ choices' = IF commit THEN out.choices ELSE choices
           /\ response' = IF out.quiz /= None
                          THEN Reply("create_quiz_from_image", out.quiz[1], "ok")
                          ELSE Reply("create_quiz_from_image", 0, "failed")
    /\ UNCHANGED <<shares, sessions, answers, now, req>>

(* ---- sharing: QuizViewSet.share, QuizShareViewSet -------------------- *)

\* QuizShare.permission_type choices
PermissionTypes == {"view", "attempt", "edit"}

\* shared_with of a share request: a username that User.objects.get may not find
Recipients == Users \cup {"nobody"}

\* the rows of a (quiz, shared_with) pair, the key of unique_together
SharesOf(rows, quiz, shared_with) ==
    {s \in rows : s.quiz = quiz /\ s.shared_with = shared_with}

\* the caller is the quiz's creator or holds an 'edit' share on it
\* (the check of QuizViewSet.share and of QuizShareSerializer.validate)
can_share(user, quiz) ==
    \/ quizzes[quiz].creator = user
    \/ \E s \in shares : s.quiz = quiz /\ s.shared_with = user /\ s.permission_type = "edit"

\* a fresh primary key (uuid4) for a QuizShare row
NewShareId == CHOOSE i \in 1..(Cardinality(shares) + 1) : \A s \in shares : s.id /= i

\* get_or_create that inserts a row without looking for an existing one
get_or_create_always_creates(quiz, shared_with, permission_type, shared_by) ==
    [share |-> NewShareId, created |-> TRUE,
     shares |-> shares \cup {[id |-> NewShareId, quiz |-> quiz, shared_by |-> shared_by,
                              shared_with |-> shared_with,
                              permission_type |-> permission_type]}]

\* QuizShare.objects.get_or_create(quiz, shared_with, defaults): the row's key,
\* the created flag and the table
get_or_create(quiz, shared_with, permission_type, shared_by) ==
    IF \E s \in shares : s.quiz = quiz /\ s.shared_with = shared_with
    THEN [share |-> (CHOOSE s \in shares : s.quiz = quiz /\ s.shared_with = shared_with).id,
          created |-> FALSE, shares |-> shares]
    ELSE [share |-> NewShareId, created |-> TRUE,
          shares |-> shares \cup {[id |-> NewShareId, quiz |-> quiz, shared_by |-> shared_by,
                                   shared_with |-> shared_with,
                                   permission_type |-> permission_type]}]

\* POST quizzes/<id>/share/ (QuizViewSet.share); the status of a success names
\* the branch taken on the created flag
Share(user, id, shared_with, permission_type) ==
    /\ id \in DOMAIN quizzes
    /\ IF id \notin quiz_queryset(user)
       THEN /\ response' = Reply("share", id, "not_found")
            /\ UNCHANGED shares
       ELSE IF ~ can_share(user, id)
       THEN /\ response' = Reply("share", id, "forbidden")
            /\ UNCHANGED shares
       ELSE IF shared_with \notin Users
       THEN /\ response' = Reply("share", id, "no_such_user")
            /\ UNCHANGED shares
       ELSE LET out == get_or_create(id, shared_with, permission_type, user)
            IN  /\ \/ Cardinality(shares) < MaxShares
                   \/ SharesOf(shares, id, shared_with) /= {}
                /\ shares' = IF out.created
                             THEN out.shares
                             ELSE {IF s.id = out.share
                                   THEN [s EXCEPT !.permission_type = permission_type]
                                   ELSE s : s \in out.shares}
                /\ response' = Reply("share", out.share,
                                     IF out.created THEN "created" ELSE "updated")
    /\ UNCHANGED <<quizzes, questions, choices, sessions, answers, now, req>>

\* request bodies of the shares endpoint: quiz, shared_with, permission_type
SharePayloads == [quiz : DOMAIN quizzes, shared_with : Users, permission_type : PermissionTypes]

\* QuizShareSerializer: the UniqueTogetherValidator of (quiz, shared_with), then validate
share_is_valid(user, data, instance) ==
    /\ data.quiz \in DOMAIN quizzes
    /\ ~ \E s \in shares : /\ s.id /= instance
                           /\ s.quiz = data.quiz
                           /\ s.shared_with = data.shared_with
    /\ data.shared_with /= user
    /\ can_share(user, data.quiz)

\* QuizShareViewSet.get_queryset
share_queryset(user) == {s \in shares : s.shared_by = user \/ s.shared_with = user}

\* POST shares/ (QuizShareSerializer.create)
ShareCreate(user, data) ==
    /\ Cardinality(shares) < MaxShares
    /\ IF share_is_valid(user, data, 0)
       THEN /\ shares' = shares \cup {[id |-> NewShareId, quiz |-> data.quiz,
                                       shared_by |-> user, shared_with |-> data.shared_with,
                                       permission_type |-> data.permission_type]}
            /\ response' = Reply("share_create", NewShareId, "ok")
       ELSE /\ response' = Reply("share_create", 0, "invalid")
            /\ UNCHANGED shares
    /\ UNCHANGED <<quizzes, questions, choices, sessions, answers, now, req>>

\* PUT shares/<id>/ (ModelViewSet.update with QuizShareSerializer: shared_by is read-only)
ShareUpdate(user, id, data) ==
    /\ \E s \in shares : s.id = id
    /\ IF ~ \E s \in share_queryset(user) : s.id = id
       THEN /\ response' = Reply("share_update", id, "not_found")
            /\ UNCHANGED shares
       ELSE IF ~ share_is_valid(user, data, id)
       THEN /\ response' = Reply("share_update", id, "invalid")
            /\ UNCHANGED shares
       ELSE /\ shares' = {IF s.id = id
                          THEN [s EXCEPT !.quiz = data.quiz,
                                         !.shared_with = data.shared_with,
                                         !.permission_type = data.permission_type]
                          ELSE s : s \in shares}
            /\ response' = Reply("share_update", id, "ok")
    /\ UNCHANGED <<quizzes, questions, choices, sessions, answers, now, req>>

\* DELETE shares/<id>/ (ModelViewSet.destroy)
ShareDestroy(user, id) ==
    /\ \E s \in shares : s.id = id
    /\ IF \E s \in share_queryset(user) : s.id = id
       THEN /\ shares' = {s \in shares : s.id /= id}
            /\ response' = Reply("share_destroy", id, "ok")
       ELSE /\ response' = Reply("share_destroy", id, "not_found")
            /\ UNCHANGED shares
    /\ UNCHANGED <<quizzes, questions, choices, sessions, answers, now, req>>

(* ---- access by share code: JoinQuizByShareCodeView, by_share_code ---- *)

\* request.user of an unauthenticated request (is_anonymous)
Anonymous == "anonymous"
Viewers == Users \cup {Anonymous}

\* get_object_or_404(Quiz, share_code=share_code): the quiz found, 0 for none
QuizByShareCode(share_code) ==
    IF \E id \in DOMAIN quizzes : quizzes[id].share_code = Some(share_code)
    THEN CHOOSE id \in DOMAIN quizzes : quizzes[id].share_code = Some(share_code)
    ELSE 0

\* quiz.shared_with.filter(id=request.user.id).exists()
is_shared_with(user, id) == \E s \in shares : s.quiz = id /\ s.shared_with = user

\* the access check that does not look at the shares of the quiz
share_code_access_without_shares(viewer, id) ==
    IF ~ quizzes[id].is_public
    THEN IF viewer = Anonymous
         THEN quizzes[id].allow_anonymous_attempts
         ELSE ~ (quizzes[id].creator /= viewer)
    ELSE TRUE

\* the access check of JoinQuizByShareCodeView.retrieve, repeated word for
\* word in QuizViewSet.by_share_code: FALSE where the view answers 403
share_code_access(viewer, id) ==
    IF ~ quizzes[id].is_public
    THEN IF viewer = Anonymous
         THEN quizzes[id].allow_anonymous_attempts
         ELSE ~ (quizzes[id].creator /= viewer /\ ~ is_shared_with(viewer, id))
    ELSE TRUE

\* QuizSession.objects.filter(quiz, user, completed_at__isnull=True)
open_sessions(user, id) ==
    {pk \in DOMAIN sessions : /\ sessions[pk].quiz = id
                              /\ sessions[pk].user = user
                              /\ sessions[pk].completed_at = None}

\* GET join/<share_code>/?auto_start=... (JoinQuizByShareCodeView.retrieve).
\* first() orders by the primary key, a uuid4 whose order is independent of the
\* order of creation: it returns any one of the open sessions.
Join(viewer, share_code, auto_start) ==
    /\ LET id == QuizByShareCode(share_code)
       IN  IF id = 0
           THEN /\ response' = Reply("join", 0, "not_found")
                /\ UNCHANGED sessions
           ELSE IF ~ share_code_access(viewer, id)
           THEN /\ response' = Reply("join", id, "forbidden")
                /\ UNCHANGED sessions
           ELSE IF auto_start /\ viewer /= Anonymous
           THEN \/ \E existing_session \in open_sessions(viewer, id) :
                        IF ~ is_timed_out(sessions[existing_session], now)
                        THEN /\ response' = Reply("join", existing_session, "existing_session")
                             /\ UNCHANGED sessions
                        ELSE /\ Len(sessions) < MaxJoinSessions
                             /\ sessions' = Append(sessions,
                                    [quiz |-> id, user |-> viewer, started_at |-> now,
                                     completed_at |-> None, score |-> None])
                             /\ response' = Reply("join", Len(sessions) + 1, "new_session")
                \/ /\ open_sessions(viewer, id) = {}
                   /\ Len(sessions) < MaxJoinSessions
                   /\ sessions' = Append(sessions,
                          [quiz |-> id, user |-> viewer, started_at |-> now,
                           completed_at |-> None, score |-> None])
                   /\ response' = Reply("join", Len(sessions) + 1, "new_session")
           ELSE /\ response' = Reply("join", id, "ok")
                /\ UNCHANGED sessions
    /\ UNCHANGED <<quizzes, questions, choices, shares, answers, now, req>>

\* GET quizzes/<share_code>/by_share_code/ (QuizViewSet.by_share_code)
ByShareCode(viewer, share_code) ==
    /\ LET id == QuizByShareCode(share_code)
       IN  IF id = 0
           THEN response' = Reply("by_share_code", 0, "not_found")
           ELSE IF ~ share_code_access(viewer, id)
           THEN response' = Reply("by_share_code", id, "forbidden")
           ELSE response' = Reply("by_share_code", id, "ok")
    /\ UNCHANGED <<quizzes, questions, choices, shares, sessions, answers, now, req>>

(* ---- questions and choices: QuestionViewSet, ChoiceViewSet ----------- *)

\* a fresh primary key (uuid4) for a Question or Choice row
NewRowId(rows) == CHOOSE i \in 1..(Cardinality(rows) + 1) : \A r \in rows : r.id /= i

\* the catalog requests of a run are numbered like the session requests: each
\* takes the first unused slot and leaves its answer there
Answer(r, op, pk, status) ==
    /\ response' = Reply(op, pk, status)
    /\ req' = [req EXCEPT ![r] = Done(op, pk, status)]

\* POST quizzes/<quiz_pk>/questions/ (QuestionViewSet.perform_create)
QuestionCreate(r, user, quiz_pk, order) ==
    /\ r = FreeSlot
    /\ Cardinality(questions) < MaxQuestions
    /\ IF quiz_pk \notin DOMAIN quizzes
       THEN /\ Answer(r, "question_create", 0, "not_found")
            /\ UNCHANGED questions
       ELSE IF quizzes[quiz_pk].creator /= user
       THEN /\ Answer(r, "question_create", 0, "forbidden")
            /\ UNCHANGED questions
       ELSE /\ questions' = questions \cup
                    {[id |-> NewRowId(questions), quiz |-> quiz_pk, order |-> order]}
            /\ Answer(r, "question_create", NewRowId(questions), "ok")
    /\ UNCHANGED <<quizzes, choices, shares, sessions, answers, now>>

\* QuestionViewSet.get_queryset
question_queryset(quiz_pk) == {q \in questions : q.quiz = quiz_pk}

\* PUT quizzes/<quiz_pk>/questions/<pk>/ (ModelViewSet.update, QuestionSerializer)
QuestionUpdate(r, user, quiz_pk, pk, order) ==
    /\ r = FreeSlot
    /\ IF \E q \in question_queryset(quiz_pk) : q.id = pk
       THEN /\ questions' = {IF q.id = pk THEN [q EXCEPT !.order = order] ELSE q :
                                q \in questions}
            /\ Answer(r, "question_update", pk, "ok")
       ELSE /\ Answer(r, "question_update", pk, "not_found")
            /\ UNCHANGED questions
    /\ UNCHANGED <<quizzes, choices, shares, sessions, answers, now>>

\* DELETE quizzes/<quiz_pk>/questions/<pk>/ (ModelViewSet.destroy): on_delete
\* CASCADE removes the choices of the question and the answers to it
QuestionDestroy(r, user, quiz_pk, pk) ==
    /\ r = FreeSlot
    /\ IF \E q \in question_queryset(quiz_pk) : q.id = pk
       THEN /\ questions' = {q \in questions : q.id /= pk}
            /\ choices' = {c \in choices : c.question /= pk}
            /\ answers' = {a \in answers :
                              /\ a.question /= pk
                              /\ \E c \in choices' : c.id = a.selected_choice}
            /\ Answer(r, "question_destroy", pk, "ok")
       ELSE /\ Answer(r, "question_destroy", pk, "not_found")
            /\ UNCHANGED <<questions, choices, answers>>
    /\ UNCHANGED <<quizzes, shares, sessions, now>>

\* POST questions/<question_pk>/choices/ (ChoiceViewSet.perform_create)
ChoiceCreate(r, user, question_pk, is_correct_flag) ==
    /\ r = FreeSlot
    /\ Cardinality(choices) < MaxChoices
    /\ IF ~ \E q \in questions : q.id = question_pk
       THEN /\ Answer(r, "choice_create", 0, "not_found")
            /\ UNCHANGED choices
       ELSE IF quizzes[(CHOOSE q \in questions : q.id = question_pk).quiz].creator /= user
       THEN /\ Answer(r, "choice_create", 0, "forbidden")
            /\ UNCHANGED choices
       ELSE /\ choices' = choices \cup
                    {[id |-> NewRowId(choices), question |-> question_pk,
                      is_correct |-> is_correct_flag, order |-> 0]}
            /\ Answer(r, "choice_create", NewRowId(choices), "ok")
    /\ UNCHANGED <<quizzes, questions, shares, sessions, answers, now>>

\* ChoiceViewSet.get_queryset
choice_queryset(question_pk) == {c \in choices : c.question = question_pk}

\* the score of a completed session, computed from the Choice table given
rescored(k, session, rows) ==
    IF session.completed_at = None
    THEN session
    ELSE [session EXCEPT !.score =
            <<100 * Cardinality({a \in answers :
                        /\ a.session = k
                        /\ \E c \in rows : c.id = a.selected_choice /\ c.is_correct}),
              IF \E q \in questions : q.quiz = session.quiz
              THEN Cardinality({q \in questions : q.quiz = session.quiz})
              ELSE 1>>]

\* a choice update that also writes the score of the completed sessions again
ChoiceUpdateRescoring(r, user, question_pk, pk, is_correct_flag) ==
    /\ r = FreeSlot
    /\ IF \E c \in choice_queryset(question_pk) : c.id = pk
       THEN /\ choices' = {IF c.id = pk THEN [c EXCEPT !.is_correct = is_correct_flag]
                                         ELSE c : c \in choices}
            /\ sessions' = [k \in DOMAIN sessions |-> rescored(k, sessions[k], choices')]
            /\ Answer(r, "choice_update", pk, "ok")
       ELSE /\ Answer(r, "choice_update", pk, "not_found")
            /\ UNCHANGED <<choices, sessions>>
    /\ UNCHANGED <<quizzes, questions, shares, answers, now>>

\* PUT questions/<question_pk>/choices/<pk>/ (ModelViewSet.update, ChoiceSerializer)
ChoiceUpdate(r, user, question_pk, pk, is_correct_flag) ==
    /\ r = FreeSlot
    /\ IF \E c \in choice_queryset(question_pk) : c.id = pk
       THEN /\ choices' = {IF c.id = pk THEN [c EXCEPT !.is_correct = is_correct_flag]
                                         ELSE c : c \in choices}
            /\ Answer(r, "choice_update", pk, "ok")
       ELSE /\ Answer(r, "choice_update", pk, "not_found")
            /\ UNCHANGED choices
    /\ UNCHANGED <<quizzes, questions, shares, sessions, answers, now>>

\* DELETE questions/<question_pk>/choices/<pk>/ (ModelViewSet.destroy): on_delete
\* CASCADE removes the answers that selected the choice
ChoiceDestroy(r, user, question_pk, pk) ==
    /\ r = FreeSlot
    /\ IF \E c \in choice_queryset(question_pk) : c.id = pk
       THEN /\ choices' = {c \in choices : c.id /= pk}
            /\ answers' = {a \in answers : a.selected_choice /= pk}
            /\ Answer(r, "choice_destroy", pk, "ok")
       ELSE /\ Answer(r, "choice_destroy", pk, "not_found")
            /\ UNCHANGED <<choices, answers>>
    /\ UNCHANGED <<quizzes, questions, shares, sessions, now>>

(* ---- initial state --------------------------------------------------- *)

\* quiz 1 has questions 1 and 2, quiz 2 has question 3, quiz 3 has none
InitCatalog ==
    /\ quizzes = [i \in 1..3 |->
            [creator |-> IF i = 2 THEN "u2" ELSE "u1", duration_minutes |-> 1,
             is_public |-> FALSE, allow_anonymous_attempts |-> FALSE,
             share_code |-> Some(i)]]
    /\ questions = {[id |-> 1, quiz |-> 1, order |-> 0],
                    [id |-> 2, quiz |-> 1, order |-> 1],
                    [id |-> 3, quiz |-> 2, order |-> 0]}
    /\ choices = {[id |-> 1, question |-> 1, is_correct |-> TRUE, order |-> 0],
                  [id |-> 2, question |-> 2, is_correct |-> TRUE, order |-> 0],
                  [id |-> 3, question |-> 2, is_correct |-> FALSE, order |-> 1],
                  [id |-> 4, question |-> 3, is_correct |-> TRUE, order |-> 0]}

Init ==
    /\ InitCatalog
    /\ sessions = <<>>
    /\ answers = {}
    /\ shares = {}
    /\ now = 0
    /\ req = [r \in Slots |-> Idle]
    /\ response = Reply("none", 0, "none")

\* every request is served from start to end before the next one starts
Next ==
    \/ \E u \in Participants, q \in DOMAIN quizzes : SessionCreate(u, q)
    \/ \E u \in Users, pk \in DOMAIN sessions, q \in QuestionInputs, c \in ChoiceInputs :
            SubmitAnswerRequest(u, pk, q, c)
    \/ \E u \in Users, pk \in DOMAIN sessions : CompleteRequest(u, pk)
    \/ Tick

Spec == Init /\ [][Next]_vars

\* the same, with PUT on a session among the requests
NextUpdate ==
    \/ \E u \in Participants, q \in DOMAIN quizzes : SessionCreate(u, q)
    \/ \E u \in Users, pk \in DOMAIN sessions, q \in DOMAIN quizzes : SessionUpdate(u, pk, q)
    \/ \E u \in Users, pk \in DOMAIN sessions, q \in QuestionInputs, c \in ChoiceInputs :
            SubmitAnswerRequest(u, pk, q, c)
    \/ \E u \in Users, pk \in DOMAIN sessions : CompleteRequest(u, pk)
    \/ Tick

UpdateSpec == Init /\ [][NextUpdate]_vars

\* submit_answer and complete requests overlap: each reads its session row, and
\* acts on that copy after other requests have run
NextConcurrent ==
    \/ \E u \in Participants, q \in DOMAIN quizzes : SessionCreate(u, q)
    \/ \E r \in Slots, u \in Users, pk \in DOMAIN sessions : SubmitAnswerLoad(r, u, pk)
    \/ \E r \in Slots, u \in Users, pk \in DOMAIN sessions : CompleteLoad(r, u, pk)
    \/ \E r \in Slots, q \in QuestionInputs, c \in ChoiceInputs : SubmitAnswer(r, q, c)
    \/ \E r \in Slots : Complete(r)
    \/ Tick

ConcurrentSpec == Init /\ [][NextConcurrent]_vars

\* the catalog: quizzes are created through the API or built from an
\* extraction, and updated by their creators, starting from an empty database
InitEmpty ==
    /\ quizzes = <<>>
    /\ questions = {}
    /\ choices = {}
    /\ sessions = <<>>
    /\ answers = {}
    /\ shares = {}
    /\ now = 0
    /\ req = [r \in Slots |-> Idle]
    /\ response = Reply("none", 0, "none")

NextCatalog ==
    \/ \E u \in Users, d \in QuizPayloads, g \in ShareCodes : QuizCreate(u, d, g)
    \/ \E u \in Users, id \in DOMAIN quizzes, d \in QuizPayloads, g \in ShareCodes :
            QuizUpdate(u, id, d, g)
    \/ \E u \in Participants, p \in BOOLEAN, d \in ParsedData, g \in ShareCodes :
            CreateQuizFromImage(u, p, d, g)

CatalogSpec == InitEmpty /\ [][NextCatalog]_vars

\* the sharing ledger: the share action of a quiz and the shares endpoint
NextShare ==
    \/ \E u \in Users, id \in DOMAIN quizzes, w \in Recipients, p \in PermissionTypes :
            Share(u, id, w, p)
    \/ \E u \in Users, d \in SharePayloads : ShareCreate(u, d)
    \/ \E u \in Users, s \in shares, d \in SharePayloads : ShareUpdate(u, s.id, d)
    \/ \E u \in Users, s \in shares : ShareDestroy(u, s.id)

ShareSpec == Init /\ [][NextShare]_vars

\* quiz 1 with any visibility flags (is_public through the quiz API,
\* allow_anonymous_attempts through the admin site), shared by its creator or not
InitAccess ==
    /\ \E is_public \in BOOLEAN, allow_anonymous_attempts \in BOOLEAN :
            quizzes = [i \in 1..3 |->
                [creator |-> IF i = 2 THEN "u2" ELSE "u1", duration_minutes |-> 1,
                 is_public |-> (i = 1 /\ is_public),
                 allow_anonymous_attempts |-> (i = 1 /\ allow_anonymous_attempts),
                 share_code |-> Some(i)]]
    /\ questions = {}
    /\ choices = {}
    /\ sessions = <<>>
    /\ answers = {}
    /\ shares \in SUBSET {[id |-> 1, quiz |-> 1, shared_by |-> "u1",
                           shared_with |-> "u2", permission_type |-> "view"]}
    /\ now = 0
    /\ req = [r \in Slots |-> Idle]
    /\ response = Reply("none", 0, "none")

\* access by share code, by anonymous and authenticated viewers
NextAccess ==
    \/ \E v \in Viewers, c \in ShareCodes, a \in BOOLEAN : Join(v, c, a)
    \/ \E v \in Viewers, c \in ShareCodes : ByShareCode(v, c)

AccessSpec == InitAccess /\ [][NextAccess]_vars

\* the two ways to start a session, while the clock advances
NextJoin ==
    \/ \E u \in Participants, q \in DOMAIN quizzes : SessionCreate(u, q)
    \/ \E v \in Viewers, c \in ShareCodes, a \in BOOLEAN : Join(v, c, a)
    \/ Tick

JoinSpec == Init /\ [][NextJoin]_vars

\* quiz 1 has question 1 with a correct choice 1 and a wrong choice 2, and u2
\* has started a session on it
InitEdit ==
    /\ quizzes = [i \in 1..3 |->
            [creator |-> IF i = 2 THEN "u2" ELSE "u1", duration_minutes |-> 1,
             is_public |-> FALSE, allow_anonymous_attempts |-> FALSE,
             share_code |-> Some(i)]]
    /\ questions = {[id |-> 1, quiz |-> 1, order |-> 0]}
    /\ choices = {[id |-> 1, question |-> 1, is_correct |-> TRUE, order |-> 0],
                  [id |-> 2, question |-> 1, is_correct |-> FALSE, order |-> 1]}
    /\ sessions = <<[quiz |-> 1, user |-> "u2", started_at |-> 0,
                     completed_at |-> None, score |-> None]>>
    /\ answers = {}
    /\ shares = {}
    /\ now = 0
    /\ req = [r \in Slots |-> Idle]
    /\ response = Reply("none", 0, "none")

\* the session is answered and completed while the questions and choices of
\* its quiz are edited through the catalog API
NextEdit ==
    \/ \E u \in Users, pk \in DOMAIN sessions, q \in QuestionInputs, c \in ChoiceInputs :
            SubmitAnswerRequest(u, pk, q, c)
    \/ \E u \in Users, pk \in DOMAIN sessions : CompleteRequest(u, pk)
    \/ \E r \in Slots, u \in Users, k \in DOMAIN quizzes : QuestionCreate(r, u, k, 0)
    \/ \E r \in Slots, u \in Users, q \in questions : QuestionUpdate(r, u, q.quiz, q.id, 1)
    \/ \E r \in Slots, u \in Users, q \in questions : QuestionDestroy(r, u, q.quiz, q.id)
    \/ \E r \in Slots, u \in Users, q \in questions, f \in BOOLEAN :
            ChoiceCreate(r, u, q.id, f)
    \/ \E r \in Slots, u \in Users, c \in choices, f \in BOOLEAN :
            ChoiceUpdate(r, u, c.question, c.id, f)
    \/ \E r \in Slots, u \in Users, c \in choices : ChoiceDestroy(r, u, c.question, c.id)

EditSpec == InitEdit /\ [][NextEdit]_vars

\* seconds between started_at and now: none, one, and around the deadline of
\* a one-minute quiz
Elapsed == {0, 1, 59, 60, 61}

\* a session of u2 on quiz 1, whose duration is 0 or 1 minute, read at a time
\* before, at or after its deadline, completed (at its start or just now) or not
InitStatus ==
    /\ \E duration_minutes \in 0..1 :
            quizzes = [i \in 1..3 |->
                [creator |-> IF i = 2 THEN "u2" ELSE "u1",
                 duration_minutes |-> IF i = 1 THEN duration_minutes ELSE 1,
                 is_public |-> FALSE, allow_anonymous_attempts |-> FALSE,
                 share_code |-> Some(i)]]
    /\ questions = {[id |-> 1, quiz |-> 1, order |-> 0]}
    /\ choices = {[id |-> 1, question |-> 1, is_correct |-> TRUE, order |-> 0],
                  [id |-> 2, question |-> 1, is_correct |-> FALSE, order |-> 1]}
    /\ \E started_at \in 0..1, e \in Elapsed :
            /\ now = started_at + e
            /\ \E completed_at \in {None, Some(started_at), Some(now)} :
                    sessions = <<[quiz |-> 1, user |-> "u2", started_at |-> started_at,
                                  completed_at |-> completed_at,
                                  score |-> IF completed_at = None THEN None ELSE <<0, 1>>]>>
    /\ answers = {}
    /\ shares = {}
    /\ req = [r \in Slots |-> Idle]
    /\ response = Reply("none", 0, "none")

\* the requests that read is_completed and is_timed_out
NextStatus ==
    \/ \E u \in Users, pk \in DOMAIN sessions, q \in QuestionInputs, c \in ChoiceInputs :
            SubmitAnswerRequest(u, pk, q, c)
    \/ \E u \in Users, pk \in DOMAIN sessions : CompleteRequest(u, pk)

StatusSpec == InitStatus /\ [][NextStatus]_vars

(* ---- properties ------------------------------------------------------ *)

\* the UserAnswer rows of one (session, question) pair
AnswersOf(rows, pk, question) == {a \in rows : a.session = pk /\ a.question = question}

\* N of the scoring rule: the questions of a quiz
CountQuestions(quiz) == Cardinality({q \in questions : q.quiz = quiz})

\* K of the scoring rule: the rows of a session whose selected choice is flagged correct
CountCorrect(rows, pk) ==
    Cardinality({a \in rows : a.session = pk /\
                    \E c \in choices : c.id = a.selected_choice /\ c.is_correct})

\* the fraction score equals 100 * K / N, or 0 when N = 0
ScoreIs(score, K, N) ==
    /\ score /= None
    /\ IF N = 0 THEN score[1] = 0 ELSE score[1] * N = 100 * K * score[2]

\* the session is in progress at the current time: not completed and within its duration
InProgress(session) ==
    /\ session.completed_at = None
    /\ now - session.started_at <= quizzes[session.quiz].duration_minutes * 60

\* C1: a complete request on a session that an earlier call has completed is
\* rejected with the already-completed error, and completed_at and score keep
\* the values the earlier call wrote.
C1_SecondCompleteRejected ==
    [][\A pk \in DOMAIN sessions :
          (/\ sessions[pk].completed_at /= None
           /\ \E u \in Users : CanGetObject(u, pk) /\ CompleteRequest(u, pk))
          => /\ response' = Reply("complete", pk, "already_completed")
             /\ sessions'[pk].completed_at = sessions[pk].completed_at
             /\ sessions'[pk].score = sessions[pk].score]_vars

\* C1 witness: a complete call was rejected on a session completed before it
C1_Witness ==
    \E pk \in DOMAIN sessions :
        /\ response = Reply("complete", pk, "already_completed")
        /\ sessions[pk].completed_at /= None
        /\ sessions[pk].score /= None

\* C2: complete on a non-completed session of a quiz with N questions and K
\* answers whose selected choice is correct sets score = 100*K/N, and 0 when N = 0.
C2_ScoreFormula ==
    [][\A pk \in DOMAIN sessions :
          (/\ sessions[pk].completed_at = None
           /\ \E u \in Users : CanGetObject(u, pk) /\ CompleteRequest(u, pk))
          => /\ response' = Reply("complete", pk, "ok")
             /\ ScoreIs(sessions'[pk].score, CountCorrect(answers, pk),
                        CountQuestions(sessions[pk].quiz))]_vars

\* C2 witness: the two-question quiz, question 1 answered correctly and
\* question 2 wrongly, completed with score 100/2 = 50
C2_Witness ==
    \E pk \in DOMAIN sessions :
        /\ response = Reply("complete", pk, "ok")
        /\ sessions[pk].quiz = 1
        /\ {<<a.question, a.selected_choice>> : a \in {b \in answers : b.session = pk}}
                = {<<1, 1>>, <<2, 3>>}
        /\ sessions[pk].score = <<100, 2>>

\* the question is not one of the quiz, or the choice is not one of the question
InvalidReference(quiz, question_id, choice_id) ==
    \/ ~ \E x \in questions : x.id = question_id /\ x.quiz = quiz
    \/ ~ \E x \in choices : x.id = choice_id /\ x.question = question_id

\* C4: submit_answer on an in-progress session with a question outside the
\* session's quiz, or a choice outside the question, is rejected with a
\* validation error and the stored answers are unchanged.
C4_InvalidReferenceRejected ==
    [][\A pk \in DOMAIN sessions :
          InProgress(sessions[pk])
          => \A q \in QuestionInputs, c \in ChoiceInputs :
                (/\ q /= None /\ c /= None
                 /\ InvalidReference(sessions[pk].quiz, q[1], c[1])
                 /\ \E u \in Users : CanGetObject(u, pk) /\ SubmitAnswerRequest(u, pk, q, c))
                => /\ response'.op = "submit_answer"
                   /\ response'.status \in {"invalid_question", "invalid_choice"}
                   /\ answers' = answers]_vars

\* C4 witness: a choice of another question was refused on a session that
\* already holds an answer
C4_Witness ==
    \E pk \in DOMAIN sessions :
        /\ response = Reply("submit_answer", pk, "invalid_choice")
        /\ InProgress(sessions[pk])
        /\ \E a \in answers : a.session = pk

\* C5: submit_answer on a non-completed session whose elapsed time exceeds the
\* quiz duration answers timed-out, records nothing, and completes the session
\* with completed_at set and the score of the answers recorded before the call.
C5_TimedOutSubmitCompletes ==
    [][\A pk \in DOMAIN sessions :
          (/\ sessions[pk].completed_at = None
           /\ now - sessions[pk].started_at > quizzes[sessions[pk].quiz].duration_minutes * 60)
          => \A q \in QuestionInputs, c \in ChoiceInputs :
                (\E u \in Users : CanGetObject(u, pk) /\ SubmitAnswerRequest(u, pk, q, c))
                => /\ response' = Reply("submit_answer", pk, "timed_out")
                   /\ answers' = answers
                   /\ sessions'[pk].completed_at = Some(now)
                   /\ ScoreIs(sessions'[pk].score, CountCorrect(answers, pk),
                              CountQuestions(sessions[pk].quiz))]_vars

\* C5 witness: a timed-out submission completed a session that holds a correct answer
C5_Witness ==
    \E pk \in DOMAIN sessions :
        /\ response = Reply("submit_answer", pk, "timed_out")
        /\ sessions[pk].completed_at = Some(now)
        /\ CountCorrect(answers, pk) > 0
        /\ sessions[pk].score /= None
        /\ sessions[pk].score[1] > 0

\* C8: a session's score is unset or between 0 and 100.
C8_ScoreInRange ==
    \A pk \in DOMAIN sessions :
        \/ sessions[pk].score = None
        \/ /\ 0 <= sessions[pk].score[1]
           /\ sessions[pk].score[1] <= 100 * sessions[pk].score[2]

\* slot r answers a submit_answer request with success in this step
SubmitAccepted(r) ==
    /\ req[r].pc = "loaded"
    /\ req[r].op = "submit_answer"
    /\ req'[r] = Done("submit_answer", req[r].pk, "ok")

\* C3: there is at most one Answer per (session, question); a successful
\* submission leaves exactly one row for its pair, holding its choice, and
\* leaves every other row alone; nothing else changes the rows.
C3_OneAnswerPerQuestion ==
    /\ [](\A a, b \in answers :
            (a.session = b.session /\ a.question = b.question) => a = b)
    /\ [][\A r \in Slots :
            SubmitAccepted(r)
            => \A q \in QuestionInputs, c \in ChoiceInputs :
                  SubmitAnswer(r, q, c)
                  => /\ q /= None /\ c /= None
                     /\ Cardinality(AnswersOf(answers', req[r].pk, q[1])) = 1
                     /\ \A a \in AnswersOf(answers', req[r].pk, q[1]) :
                            a.selected_choice = c[1]
                     /\ answers' \ AnswersOf(answers', req[r].pk, q[1])
                            = answers \ AnswersOf(answers, req[r].pk, q[1])]_vars
    /\ [][answers' /= answers => \E r \in Slots : SubmitAccepted(r)]_vars

\* C3 witness: two submissions for one session were both accepted and one row is stored
C3_Witness ==
    /\ \A r \in Slots : req[r].pc = "done" => req[r] = Done("submit_answer", 1, "ok")
    /\ Cardinality({r \in Slots : req[r].pc = "done"}) >= 2
    /\ Cardinality(answers) = 1

\* C6: of the complete requests that overlap on one session, exactly one succeeds.
C6_OneCompletionSucceeds ==
    \A pk \in DOMAIN sessions :
        Cardinality({r \in Slots : req[r] = Done("complete", pk, "ok")}) <= 1

\* C7: once completed_at is set, no Answer of the session is created or changed.
C7_AnswersFrozenAfterCompletion ==
    [][\A pk \in DOMAIN sessions :
          sessions[pk].completed_at /= None
          => {a \in answers' : a.session = pk} = {a \in answers : a.session = pk}]_vars

\* a record of the extraction lacks question_text or choice_text
Malformed(parsed_data) ==
    \E i \in DOMAIN parsed_data :
        \/ ~ parsed_data[i].has_question_text
        \/ \E j \in DOMAIN parsed_data[i].choices :
                ~ parsed_data[i].choices[j].has_choice_text

\* C9: building a quiz from an extraction with a malformed record fails and
\* leaves no Quiz, Question or Choice of that call persisted.
C9_BuildAllOrNothing ==
    [][\A u \in Participants, p \in BOOLEAN, d \in ParsedData, g \in ShareCodes :
          (CreateQuizFromImage(u, p, d, g) /\ Malformed(d))
          => /\ response'.status = "failed"
             /\ quizzes' = quizzes
             /\ questions' = questions
             /\ choices' = choices]_vars

\* C10: every quiz has a non-null share code that no other quiz has, and no
\* save or update of a quiz changes its code.
C10_ShareCodeStable ==
    /\ [](\A id \in DOMAIN quizzes :
            /\ quizzes[id].share_code /= None
            /\ ~ ShareCodeTaken(quizzes[id].share_code, id))
    /\ [][\A id \in DOMAIN quizzes :
            quizzes'[id].share_code = quizzes[id].share_code]_vars

C12_NoSelfShare ==
    /\ [](\A s \in shares : s.shared_by /= s.shared_with)
    /\ [][\A u \in Users :
            /\ \A id \in DOMAIN quizzes, p \in PermissionTypes :
                   Share(u, id, u, p) => shares' = shares
            /\ \A d \in SharePayloads :
                   (d.shared_with = u /\ ShareCreate(u, d)) => shares' = shares
            /\ \A s \in shares, d \in SharePayloads :
                   (d.shared_with = u /\ ShareUpdate(u, s.id, d)) => shares' = shares]_vars

\* C13: a request that creates a share or changes one, made by a caller who is
\* neither the creator nor an 'edit' holder of the quiz of the share, leaves
\* the rows unchanged.
C13_OnlyEditorsGrant ==
    [][\A u \in Users :
          /\ \A id \in DOMAIN quizzes, w \in Recipients, p \in PermissionTypes :
                 (~ can_share(u, id) /\ Share(u, id, w, p)) => shares' = shares
          /\ \A d \in SharePayloads :
                 (~ can_share(u, d.quiz) /\ ShareCreate(u, d)) => shares' = shares
          /\ \A s \in shares, d \in SharePayloads :
                 (~ (can_share(u, s.quiz) /\ can_share(u, d.quiz)) /\ ShareUpdate(u, s.id, d))
                 => shares' = shares]_vars

\* the access policy grants the user at least attempt rights on the quiz
AttemptRights(user, id) ==
    \/ quizzes[id].creator = user
    \/ quizzes[id].is_public
    \/ \E s \in shares : /\ s.quiz = id
                          /\ s.shared_with = user
                          /\ s.permission_type \in {"attempt", "edit"}

\* C14: a session is created for (quiz, user) only when the user is the
\* creator, or the quiz is public, or the user holds an 'attempt' or 'edit' share.
C14_SessionNeedsAttemptRights ==
    [][Len(sessions') > Len(sessions)
       => AttemptRights(sessions'[Len(sessions')].user, sessions'[Len(sessions')].quiz)]_vars

\* the sessions of (quiz, user) that are neither completed nor timed out
ActiveSessions(user, id) ==
    {pk \in open_sessions(user, id) : ~ is_timed_out(sessions[pk], now)}

\* C15: join with auto_start by an authenticated user who has access to the
\* quiz and a session of it that is neither completed nor timed out returns
\* one of those sessions and creates none.
C15_JoinResumesActiveSession ==
    [][\A v \in Users, c \in ShareCodes :
          (/\ response'.op = "join"
           /\ QuizByShareCode(c) /= 0
           /\ share_code_access(v, QuizByShareCode(c))
           /\ ActiveSessions(v, QuizByShareCode(c)) /= {}
           /\ Join(v, c, TRUE))
          => /\ sessions' = sessions
             /\ response'.status = "existing_session"
             /\ response'.pk \in ActiveSessions(v, QuizByShareCode(c))]_vars

\* the access policy by share code: creator, public quiz, anonymous viewer of
\* a quiz that allows anonymous attempts, authenticated viewer with a share
AccessGranted(viewer, id) ==
    \/ quizzes[id].creator = viewer
    \/ quizzes[id].is_public
    \/ viewer = Anonymous /\ quizzes[id].allow_anonymous_attempts
    \/ viewer \in Users /\ \E s \in shares : s.quiz = id /\ s.shared_with = viewer

\* C16: the join view and the by_share_code action answer a viewer with the
\* quiz exactly when the policy grants access, and with 403 in every other case.
C16_ShareCodeAccess ==
    [][\A v \in Viewers, c \in ShareCodes :
          QuizByShareCode(c) /= 0
          => /\ response'.op = "join"
                => \A a \in BOOLEAN :
                      Join(v, c, a)
                      => /\ response'.status /= "not_found"
                         /\ (response'.status /= "forbidden")
                                <=> AccessGranted(v, QuizByShareCode(c))
             /\ (response'.op = "by_share_code" /\ ByShareCode(v, c))
                => /\ response'.status /= "not_found"
                   /\ (response'.status /= "forbidden")
                          <=> AccessGranted(v, QuizByShareCode(c))]_vars

\* C16 witness: join started a session on a private quiz for a viewer who is
\* not its creator and has a share, after access to another quiz was refused
C16_Witness ==
    /\ response.op = "join"
    /\ response.status = "new_session"
    /\ LET session == sessions[response.pk]
       IN  /\ ~ quizzes[session.quiz].is_public
           /\ quizzes[session.quiz].creator /= session.user
           /\ is_shared_with(session.user, session.quiz)
           /\ \E id \in DOMAIN quizzes : ~ AccessGranted(session.user, id)

\* the user is an effective editor of the quiz: its creator or an 'edit' holder
EffectiveEditor(user, quiz) ==
    \/ quizzes[quiz].creator = user
    \/ \E s \in shares : s.quiz = quiz /\ s.shared_with = user /\ s.permission_type = "edit"

\* the quiz that owns the question with this key
QuizOfQuestion(question_pk) == (CHOOSE q \in questions : q.id = question_pk).quiz

\* C17: a question or choice request by a user who is not an effective editor
\* of the owning quiz leaves the questions and choices unchanged.
C17_OnlyEditorsMutate ==
    [][\A r \in Slots, u \in Users :
          /\ \A k \in DOMAIN quizzes :
                 (~ EffectiveEditor(u, k) /\ QuestionCreate(r, u, k, 0))
                 => UNCHANGED <<questions, choices>>
          /\ \A q \in questions :
                 ~ EffectiveEditor(u, q.quiz)
                 => /\ QuestionUpdate(r, u, q.quiz, q.id, 1) => UNCHANGED <<questions, choices>>
                    /\ QuestionDestroy(r, u, q.quiz, q.id) => UNCHANGED <<questions, choices>>
                    /\ \A f \in BOOLEAN :
                           ChoiceCreate(r, u, q.id, f) => UNCHANGED <<questions, choices>>
          /\ \A c \in choices :
                 ~ EffectiveEditor(u, QuizOfQuestion(c.question))
                 => /\ \A f \in BOOLEAN :
                           ChoiceUpdate(r, u, c.question, c.id, f)
                           => UNCHANGED <<questions, choices>>
                    /\ ChoiceDestroy(r, u, c.question, c.id)
                           => UNCHANGED <<questions, choices>>]_vars

\* the requests that edit the questions and choices of a quiz
CatalogOps == {"question_create", "question_update", "question_destroy",
               "choice_create", "choice_update", "choice_destroy"}

\* C19: a question or choice request leaves score and completed_at of every
\* completed session as they were, and afterwards the correctness of every
\* Answer is the current flag of its selected choice.
C19_ScoreFrozenUnderEdits ==
    [][response'.op \in CatalogOps
       => /\ \A pk \in DOMAIN sessions :
                 sessions[pk].completed_at /= None
                 => /\ pk \in DOMAIN sessions'
                    /\ sessions'[pk].score = sessions[pk].score
                    /\ sessions'[pk].completed_at = sessions[pk].completed_at
          /\ \A a \in answers' :
                 is_correct(a)' = \E c \in choices' : c.id = a.selected_choice /\ c.is_correct]_vars

\* C19 witness: the session was completed with the score 100 of its correct
\* answer, and the selected choice has since been flagged wrong
C19_Witness ==
    /\ response = Reply("choice_update", 1, "ok")
    /\ sessions[1].completed_at /= None
    /\ sessions[1].score = <<100, 1>>
    /\ \E a \in answers : a.session = 1 /\ a.selected_choice = 1 /\ ~ is_correct(a)

\* the deadline of the session has passed: more seconds since started_at than
\* the duration of its quiz has
PastDeadline(session) ==
    now - session.started_at > quizzes[session.quiz].duration_minutes * 60

\* C18: is_completed holds exactly when completed_at is set; is_timed_out
\* holds exactly when completed_at is not set and the elapsed time is strictly
\* greater than the duration; never both; not timed out at the deadline. The
\* requests answer accordingly.
C18_DerivedStatus ==
    /\ [](\A pk \in DOMAIN sessions :
            /\ is_completed(sessions[pk]) <=> sessions[pk].completed_at /= None
            /\ is_timed_out(sessions[pk], now)
                   <=> (sessions[pk].completed_at = None /\ PastDeadline(sessions[pk]))
            /\ ~ (is_completed(sessions[pk]) /\ is_timed_out(sessions[pk], now))
            /\ (now - sessions[pk].started_at
                    = quizzes[sessions[pk].quiz].duration_minutes * 60)
                   => ~ is_timed_out(sessions[pk], now))
    /\ [][\A pk \in DOMAIN sessions :
            response'.op = "submit_answer"
            => \A q \in QuestionInputs, c \in ChoiceInputs :
                  (\E u \in Users : CanGetObject(u, pk) /\ SubmitAnswerRequest(u, pk, q, c))
                  => /\ (response'.status = "already_completed")
                            <=> sessions[pk].completed_at /= None
                     /\ (response'.status = "timed_out")
                            <=> (sessions[pk].completed_at = None
                                 /\ PastDeadline(sessions[pk]))]_vars

\* C18 witness: an answer was accepted exactly at the deadline of a one-minute quiz
C18_Witness ==
    /\ response = Reply("submit_answer", 1, "ok")
    /\ sessions[1].completed_at = None
    /\ quizzes[sessions[1].quiz].duration_minutes = 1
    /\ now - sessions[1].started_at = 60
    /\ ~ is_timed_out(sessions[1], now)
    /\ answers /= {}

\* C20: every stored Answer references a question of its session's quiz and
\* a choice of that question.
C20_AnswersReferenceQuiz ==
    \A a \in answers :
        /\ \E q \in questions : q.id = a.question /\ q.quiz = sessions[a.session].quiz
        /\ \E c \in choices : c.id = a.selected_choice /\ c.question = a.question

\* the caller is the session's own user or the creator of the session's quiz
OwnerOrCreator(u, session) ==
    u = session.user \/ u = quizzes[session.quiz].creator

\* C21: submit_answer and complete requested on a session by a user who is
\* neither the session's user nor the creator of its quiz are refused and
\* leave the sessions and the answers unchanged.
C21_OnlyOwnerOrCreatorActs ==
    [][response'.op \in {"submit_answer", "complete"}
       => \A pk \in DOMAIN sessions, u \in Users :
             (/\ ~ OwnerOrCreator(u, sessions[pk])
              /\ \/ CompleteRequest(u, pk)
                 \/ \E q \in QuestionInputs, c \in ChoiceInputs :
                        SubmitAnswerRequest(u, pk, q, c))
             => /\ response'.status = "not_found"
                /\ sessions' = sessions
                /\ answers' = answers]_vars

\* C21 witness: a request on an in-progress session that holds an answer was
\* refused, and some user is neither its user nor the creator of its quiz
C21_Witness ==
    \E pk \in DOMAIN sessions :
        /\ response.pk = pk
        /\ response.op \in {"submit_answer", "complete"}
        /\ response.status = "not_found"
        /\ InProgress(sessions[pk])
        /\ \E a \in answers : a.session = pk
        /\ \E u \in Users : ~ OwnerOrCreator(u, sessions[pk])

====
